---- MODULE Spec2Model ----
(***************************************************************************)
(* Model of package proto (knx/proto/proto.go): the KNXnet/IP framing      *)
(* layer.  Pack wraps a service payload in the 6-byte header and writes it *)
(* to a sink; Unpack validates the header, selects the service type from   *)
(* the service identifier and delegates the body to that type's parser.    *)
(*                                                                         *)
(* The package holds no state of its own.  The variables record the last   *)
(* call: its arguments, what it returned and what it wrote.                *)
(***************************************************************************)
EXTENDS Integers, Sequences, FiniteSets, TLC

VARIABLES op, payload, sinkCap, sink, packRet, data, srvBefore, srv, unpackRet, calls

vars == <<op, payload, sinkCap, sink, packRet, data, srvBefore, srv, unpackRet, calls>>

(* ---------------------------- bounds ----------------------------------- *)

\* longest body (in bytes) of the enumerated payloads and input buffers
MaxBody == 2

\* byte values used in bodies
BodyBytes == {0, 1, 255}

\* body lengths around the point where body length + 6 leaves 16 bits
LongBodyLens == {65529, 65530}

\* values of header byte 0 and header byte 1 of the enumerated input buffers
HeaderLenBytes == {5, 6, 16}
VersionBytes == {6, 16, 17}

\* values of the total-length field of the enumerated input buffers
TotalLens == {0, 7, 8}

\* capacities of the caller's sink; NoLimit is a sink that never fails
NoLimit == 16777216
SinkCaps == {NoLimit, 0, 3, 6, 7}

(* ---------------------------- constants -------------------------------- *)

HeaderLength == 6
HeaderVersion == 16

ConnReqService == 517
ConnResService == 518
ConnStateReqService == 519
ConnStateResService == 520
DiscReqService == 521
DiscResService == 522
TunnelReqService == 1056
TunnelResService == 1057
RoutingIndService == 1328
RoutingLostService == 1329
RoutingBusyService == 1330

KnownServices ==
    {ConnReqService, ConnResService, ConnStateReqService, ConnStateResService,
     DiscReqService, DiscResService, TunnelReqService, TunnelResService,
     RoutingIndService, RoutingLostService, RoutingBusyService}

\* identifiers next to the known ranges, the byte-swapped form of 0x0205, and the extremes
UnknownServices == {0, 516, 523, 1058, 1327, 1331, 1282, 65535}

ErrHeaderLength == "Header length is not 6"
ErrHeaderVersion == "Protocol version is not 16"
ErrUnknownService == "Unknown service identifier"

\* errors of the collaborators
Nil == "nil"
ErrUnexpectedEOF == "unexpected EOF"
ErrBody == "invalid body"
ErrWriteTo == "payload WriteTo failed"
ErrSink == "sink Write failed"

(* ---------------------------- helpers ---------------------------------- *)

SeqsUpTo(S, n) == UNION {[1..k -> S] : k \in 0..n}

Take(s, k) == SubSeq(s, 1, IF k < Len(s) THEN k ELSE Len(s))

Drop(s, k) == SubSeq(s, k + 1, Len(s))

\* big-endian encoding and decoding of a 16-bit value
U16(v) == <<(v \div 256) % 256, v % 256>>

FromU16(hi, lo) == hi * 256 + lo

RECURSIVE Concat(_)
Concat(items) ==
    IF items = <<>> THEN <<>> ELSE Head(items) \o Concat(Tail(items))

(* ---------------------------- service types ---------------------------- *)

Kinds ==
    {"ConnReq", "ConnRes", "ConnStateReq", "ConnStateRes", "DiscReq", "DiscRes",
     "TunnelReq", "TunnelRes", "RoutingInd", "RoutingLost", "RoutingBusy"}

\* Service() of each service type
KindService ==
    [k \in Kinds |->
        CASE k = "ConnReq" -> ConnReqService
          [] k = "ConnRes" -> ConnResService
          [] k = "ConnStateReq" -> ConnStateReqService
          [] k = "ConnStateRes" -> ConnStateResService
          [] k = "DiscReq" -> DiscReqService
          [] k = "DiscRes" -> DiscResService
          [] k = "TunnelReq" -> TunnelReqService
          [] k = "TunnelRes" -> TunnelResService
          [] k = "RoutingInd" -> RoutingIndService
          [] k = "RoutingLost" -> RoutingLostService
          [] k = "RoutingBusy" -> RoutingBusyService]

\* number of body bytes each service type's parser reads
KindLen ==
    [k \in Kinds |->
        CASE k \in {"ConnReq", "ConnRes", "TunnelReq", "RoutingInd"} -> 2
          [] k \in {"ConnStateReq", "ConnStateRes", "DiscReq", "TunnelRes", "RoutingBusy"} -> 1
          [] OTHER -> 0]

\* a field value every body parser rejects
BadByte == 255

\* a zero-valued instance of a service type (&ConnReq{} ...)
NewInstance(k) == [kind |-> k, fields |-> <<>>]

Service(x) == KindService[x.kind]

\* the service type's own Unpack: reads KindLen bytes from the start of the
\* slice, stops at the first missing or rejected byte and reports the bytes
\* consumed before it
BodyUnpack(k, bytes) ==
    LET need == KindLen[k]
        bad == {i \in 1..need : i > Len(bytes) \/ bytes[i] = BadByte}
        stop == CHOOSE i \in bad : \A j \in bad : i <= j
    IN  IF bad = {}
        THEN [m |-> need, err |-> Nil, fields |-> Take(bytes, need)]
        ELSE [m |-> stop - 1,
              err |-> IF stop > Len(bytes) THEN ErrUnexpectedEOF ELSE ErrBody,
              fields |-> Take(bytes, stop - 1)]

\* the payload's own WriteTo into the intermediate buffer: all its fields, or
\* the first failAt of them followed by an error
WriteTo(x) ==
    IF x.failAt < 0
    THEN [buf |-> x.fields, err |-> Nil]
    ELSE [buf |-> Take(x.fields, x.failAt), err |-> ErrWriteTo]

(* ---------------------------- encoding.WriteSome ----------------------- *)

\* writes the items in order to a sink that accepts cap bytes (NoLimit: any
\* number); reports the bytes written and the sink's first error
WriteSome(cap, items) ==
    LET all == Concat(items)
    IN  IF cap = NoLimit \/ Len(all) <= cap
        THEN [n |-> Len(all), err |-> Nil, out |-> all]
        ELSE [n |-> cap, err |-> ErrSink, out |-> Take(all, cap)]

(* ---------------------------- Pack ------------------------------------- *)

\* uint16(dataBuffer.Len() + 6)
TotalLenField(bodyLen) == (bodyLen + 6) % 65536

\* a header with the service identifier and the total length exchanged
PackItemsSwapped(srvID, buf) ==
    << <<HeaderLength>>, <<HeaderVersion>>, U16(TotalLenField(Len(buf))), U16(srvID), buf >>

\* the values handed to encoding.WriteSome, each as the bytes it is written as
PackItems(srvID, buf) ==
    << <<HeaderLength>>, <<HeaderVersion>>, U16(srvID), U16(TotalLenField(Len(buf))), buf >>

\* Pack that goes on to write the header and the intermediate buffer after a
\* failed WriteTo
PackNoAbort(cap, x) ==
    LET w == WriteTo(x)
        r == WriteSome(cap, PackItems(Service(x), w.buf))
    IN  IF w.err # Nil THEN [n |-> r.n, err |-> w.err, out |-> r.out] ELSE r

Pack(cap, x) ==
    LET w == WriteTo(x)
    IN  IF w.err # Nil
        THEN [n |-> 0, err |-> w.err, out |-> <<>>]
        ELSE WriteSome(cap, PackItems(Service(x), w.buf))

(* ---------------------------- util.UnpackSome -------------------------- *)

\* widths of &headerLen, &version, &srvID, &totalLen
HeaderWidths == <<1, 1, 2, 2>>

\* reads the fields one after the other; stops at the first field the input
\* is too short for and reports the bytes of the fields read before it
RECURSIVE UnpackSome(_, _)
UnpackSome(bytes, widths) ==
    IF widths = <<>> THEN [n |-> 0, err |-> Nil]
    ELSE IF Len(bytes) < Head(widths) THEN [n |-> 0, err |-> ErrUnexpectedEOF]
    ELSE LET r == UnpackSome(Drop(bytes, Head(widths)), Tail(widths))
         IN  [n |-> Head(widths) + r.n, err |-> r.err]

\* the header fields as read from the first six bytes
HeaderOf(bytes) ==
    [headerLen |-> bytes[1], version |-> bytes[2],
     srvID |-> FromU16(bytes[3], bytes[4]), totalLen |-> FromU16(bytes[5], bytes[6])]

(* ---------------------------- Unpack ----------------------------------- *)

\* header checks that accept any header length from 6 on
CheckHeaderAtLeast(h) ==
    IF h.headerLen < HeaderLength THEN ErrHeaderLength
    ELSE IF h.version # HeaderVersion THEN ErrHeaderVersion
    ELSE Nil

\* header checks that accept any version from 16 on
CheckHeaderVersionAtLeast(h) ==
    IF h.headerLen # HeaderLength THEN ErrHeaderLength
    ELSE IF h.version < HeaderVersion THEN ErrHeaderVersion
    ELSE Nil

\* header checks that also reject a total length smaller than the header
CheckHeaderTotalLen(h) ==
    IF h.headerLen # HeaderLength \/ h.totalLen < HeaderLength THEN ErrHeaderLength
    ELSE IF h.version # HeaderVersion THEN ErrHeaderVersion
    ELSE Nil

\* the two checks of the constant header fields, in the order they are made
CheckHeader(h) ==
    IF h.headerLen # HeaderLength THEN ErrHeaderLength
    ELSE IF h.version # HeaderVersion THEN ErrHeaderVersion
    ELSE Nil

NoKind == "none"

\* the switch with the bodies of the two tunnel cases exchanged
RegistrySwapped(srvID) ==
    CASE srvID = ConnReqService -> "ConnReq"
      [] srvID = ConnResService -> "ConnRes"
      [] srvID = ConnStateReqService -> "ConnStateReq"
      [] srvID = ConnStateResService -> "ConnStateRes"
      [] srvID = DiscReqService -> "DiscReq"
      [] srvID = DiscResService -> "DiscRes"
      [] srvID = TunnelReqService -> "TunnelRes"
      [] srvID = TunnelResService -> "TunnelReq"
      [] srvID = RoutingIndService -> "RoutingInd"
      [] srvID = RoutingLostService -> "RoutingLost"
      [] srvID = RoutingBusyService -> "RoutingBusy"
      [] OTHER -> NoKind

\* the switch with a default case that falls back to a routing indication
RegistryDefault(srvID) ==
    CASE srvID = ConnReqService -> "ConnReq"
      [] srvID = ConnResService -> "ConnRes"
      [] srvID = ConnStateReqService -> "ConnStateReq"
      [] srvID = ConnStateResService -> "ConnStateRes"
      [] srvID = DiscReqService -> "DiscReq"
      [] srvID = DiscResService -> "DiscRes"
      [] srvID = TunnelReqService -> "TunnelReq"
      [] srvID = TunnelResService -> "TunnelRes"
      [] srvID = RoutingLostService -> "RoutingLost"
      [] srvID = RoutingBusyService -> "RoutingBusy"
      [] OTHER -> "RoutingInd"

\* the switch on srvID: the service type a zero value is created of
Registry(srvID) ==
    CASE srvID = ConnReqService -> "ConnReq"
      [] srvID = ConnResService -> "ConnRes"
      [] srvID = ConnStateReqService -> "ConnStateReq"
      [] srvID = ConnStateResService -> "ConnStateRes"
      [] srvID = DiscReqService -> "DiscReq"
      [] srvID = DiscResService -> "DiscRes"
      [] srvID = TunnelReqService -> "TunnelReq"
      [] srvID = TunnelResService -> "TunnelRes"
      [] srvID = RoutingIndService -> "RoutingInd"
      [] srvID = RoutingLostService -> "RoutingLost"
      [] srvID = RoutingBusyService -> "RoutingBusy"
      [] OTHER -> NoKind

\* *srv = body without looking at the error
StoreAlways(slot, body, err) == body

\* if err == nil { *srv = body }
Store(slot, body, err) == IF err = Nil THEN body ELSE slot

\* a count that leaves out what the body parser consumed
ConsumedHeaderOnly(n, m) == n

\* return n + m
Consumed(n, m) == n + m

\* Unpack(data, &srv) with *srv = slot before the call.  calls lists the body
\* parsers invoked, each with the slice it was given.
Unpack(bytes, slot) ==
    LET h == UnpackSome(bytes, HeaderWidths)
        early(e) == [n |-> h.n, err |-> e, srv |-> slot, calls |-> <<>>]
    IN  IF h.err # Nil THEN early(h.err)
        ELSE IF CheckHeader(HeaderOf(bytes)) # Nil THEN early(CheckHeader(HeaderOf(bytes)))
        ELSE LET k == Registry(HeaderOf(bytes).srvID)
             IN  IF k = NoKind THEN early(ErrUnknownService)
                 ELSE LET rest == Drop(bytes, h.n)
                          b == BodyUnpack(k, rest)
                          body == [NewInstance(k) EXCEPT !.fields = b.fields]
                      IN  [n |-> Consumed(h.n, b.m),
                           err |-> b.err,
                           srv |-> Store(slot, body, b.err),
                           calls |-> <<[kind |-> k, arg |-> rest]>>]

(* ---------------------------- inputs ----------------------------------- *)

NoPayload == [kind |-> "none", fields |-> <<>>, failAt |-> -1]
NoRet == [n |-> 0, err |-> Nil]
NilService == [kind |-> "nil", fields |-> <<>>]

Bodies == SeqsUpTo(BodyBytes, MaxBody)

\* payloads handed to Pack: values of the service types, some of which fail
\* while serializing, and payloads with a very long body
Payloads ==
    {[kind |-> k, fields |-> f, failAt |-> a] :
        k \in Kinds, f \in Bodies, a \in -1..MaxBody} \cup
    {[kind |-> "RoutingInd", fields |-> [i \in 1..l |-> 0], failAt |-> -1] :
        l \in LongBodyLens}

ValidPayloads == {x \in Payloads : x.failAt <= Len(x.fields)}

\* input buffers handed to Unpack: a header, a body, cut to any length
Buffers ==
    {Take(<<b0, b1>> \o U16(id) \o U16(tl) \o body, len) :
        b0 \in HeaderLenBytes, b1 \in VersionBytes,
        id \in KnownServices \cup UnknownServices, tl \in TotalLens,
        body \in Bodies, len \in 0..(6 + MaxBody)}

\* values the caller's slot holds before the call
Slots == {NilService, [kind |-> "ConnRes", fields |-> <<1, 0>>]}

(* ---------------------------- actions ---------------------------------- *)

Init ==
    /\ op = "init"
    /\ payload = NoPayload
    /\ sinkCap = NoLimit
    /\ sink = <<>>
    /\ packRet = NoRet
    /\ data = <<>>
    /\ srvBefore = NilService
    /\ srv = NilService
    /\ unpackRet = NoRet
    /\ calls = <<>>

\* a call Pack(w, x) on a fresh sink w
PackCall ==
    /\ op = "init"
    /\ \E x \in ValidPayloads, cap \in SinkCaps :
        /\ Len(x.fields) <= MaxBody \/ cap = NoLimit
        /\ LET r == Pack(cap, x)
           IN  /\ op' = "pack"
               /\ payload' = x
               /\ sinkCap' = cap
               /\ sink' = r.out
               /\ packRet' = [n |-> r.n, err |-> r.err]
        /\ data' = <<>>
        /\ srvBefore' = NilService
        /\ srv' = NilService
        /\ unpackRet' = NoRet
        /\ calls' = <<>>

\* a call Unpack(data, &srv) on an arbitrary buffer
UnpackCall ==
    /\ op = "init"
    /\ \E bytes \in Buffers, slot \in Slots :
        /\ LET r == Unpack(bytes, slot)
           IN  /\ op' = "unpack"
               /\ data' = bytes
               /\ srvBefore' = slot
               /\ srv' = r.srv
               /\ unpackRet' = [n |-> r.n, err |-> r.err]
               /\ calls' = r.calls
        /\ payload' = NoPayload
        /\ sinkCap' = NoLimit
        /\ sink' = <<>>
        /\ packRet' = NoRet

\* a call Unpack on the bytes the preceding Pack wrote to its sink
UnpackPacked ==
    /\ op = "pack"
    /\ \E slot \in Slots :
        LET r == Unpack(sink, slot)
        IN  /\ op' = "roundtrip"
            /\ data' = sink
            /\ srvBefore' = slot
            /\ srv' = r.srv
            /\ unpackRet' = [n |-> r.n, err |-> r.err]
            /\ calls' = r.calls
    /\ UNCHANGED <<payload, sinkCap, sink, packRet>>

\* the caller drops the results of the last call and is ready for the next
Return ==
    /\ op # "init"
    /\ op' = "init"
    /\ payload' = NoPayload
    /\ sinkCap' = NoLimit
    /\ sink' = <<>>
    /\ packRet' = NoRet
    /\ data' = <<>>
    /\ srvBefore' = NilService
    /\ srv' = NilService
    /\ unpackRet' = NoRet
    /\ calls' = <<>>

Next == PackCall \/ UnpackCall \/ UnpackPacked \/ Return

Spec == Init /\ [][Next]_vars

TypeOK ==
    /\ op \in {"init", "pack", "unpack", "roundtrip"}
    /\ packRet.n \in Nat
    /\ unpackRet.n \in Nat
    /\ Len(calls) <= 1

(* ---------------------------- properties ------------------------------- *)

\* an Unpack call has returned
Unpacked == op \in {"unpack", "roundtrip"}

\* the buffer carries all six header bytes
HasHeader == Len(data) >= 6

\* the header fields as they stand in the buffer, read independently of Unpack
Byte0 == data[1]
Byte1 == data[2]
WireService == data[3] * 256 + data[4]
WireTotalLen == data[5] * 256 + data[6]
AfterHeader == SubSeq(data, 7, Len(data))

\* the kind whose own Service() reports the identifier on the wire
KindOfWire == CHOOSE k \in Kinds : KindService[k] = WireService

\* the payload's serialization succeeds and its own decoder inverts its encoder
DecoderInverts(x) ==
    /\ WriteTo(x).err = Nil
    /\ BodyUnpack(x.kind, WriteTo(x).buf).err = Nil
    /\ BodyUnpack(x.kind, WriteTo(x).buf).fields = x.fields

\* C1: unpacking the bytes a successful Pack(x) wrote succeeds and stores a
\* value equal to x with the ServiceID of x, for every payload x of a known
\* kind whose decoder inverts its encoder.
C1_RoundTrip ==
    (op = "roundtrip" /\ packRet.err = Nil /\ DecoderInverts(payload))
        => /\ unpackRet.err = Nil
           /\ srv.kind = payload.kind
           /\ srv.fields = payload.fields
           /\ Service(srv) = Service(payload)
           /\ unpackRet.n = packRet.n

C1_Witness ==
    /\ op = "roundtrip"
    /\ packRet.err = Nil
    /\ DecoderInverts(payload)
    /\ payload.kind = "TunnelReq"
    /\ payload.fields = <<1, 0>>
    /\ srvBefore # NilService
    /\ srv = [kind |-> "TunnelReq", fields |-> <<1, 0>>]

\* C2 as stated, on the buffers that carry the whole header: a buffer whose
\* byte 0 is not 6 fails with ErrHeaderLength and a consumed count of at least
\* 1 and at most the bytes up through byte 0.
C2_Original ==
    (Unpacked /\ HasHeader /\ Byte0 # 6)
        => /\ unpackRet.err = ErrHeaderLength
           /\ unpackRet.n >= 1
           /\ unpackRet.n <= 1

\* C2 amended: every buffer of at least 6 bytes whose byte 0 is not 6 fails
\* with ErrHeaderLength, whatever byte 1 is, and the consumed count is 6: the
\* four header fields are read before byte 0 is checked.
C2_HeaderLength ==
    (Unpacked /\ HasHeader /\ Byte0 # 6)
        => /\ unpackRet.err = ErrHeaderLength
           /\ unpackRet.n = 6
           /\ calls = <<>>

C2_Witness ==
    /\ op = "unpack"
    /\ Len(data) = 8
    /\ Byte0 = 16
    /\ Byte1 = 16
    /\ WireService = TunnelReqService
    /\ unpackRet = [n |-> 6, err |-> ErrHeaderLength]

C4_UnknownService ==
    (Unpacked /\ HasHeader /\ Byte0 = 6 /\ Byte1 = 16 /\ WireService \notin KnownServices)
        => /\ unpackRet.err = ErrUnknownService
           /\ unpackRet.n = 6
           /\ calls = <<>>

C4_Witness ==
    /\ op = "unpack"
    /\ Len(data) = 8
    /\ Byte0 = 6
    /\ Byte1 = 16
    /\ WireService = 523
    /\ unpackRet = [n |-> 6, err |-> ErrUnknownService]

\* C5: when the payload's WriteTo fails, Pack writes nothing to the sink, not
\* even the bytes WriteTo had put into the intermediate buffer, and returns 0
\* with the payload's error.
C5_PackAbort ==
    (op = "pack" /\ payload.failAt >= 0)
        => /\ sink = <<>>
           /\ packRet = [n |-> 0, err |-> ErrWriteTo]

C5_Witness ==
    /\ op = "pack"
    /\ payload.failAt = 1
    /\ Len(payload.fields) = 2
    /\ WriteTo(payload).buf # <<>>
    /\ sinkCap = NoLimit
    /\ sink = <<>>

\* C6: with a valid header and any of the 11 identifiers, the body parser
\* invoked is the one of the kind whose Service() reports that identifier, and
\* a stored value reports the identifier read from bytes 2-3; the switch
\* covers all 11 identifiers.
C6_Dispatch ==
    /\ \A id \in KnownServices :
            Registry(id) \in Kinds /\ KindService[Registry(id)] = id
    /\ (Unpacked /\ HasHeader /\ Byte0 = 6 /\ Byte1 = 16 /\ WireService \in KnownServices)
        => /\ Len(calls) = 1
           /\ calls[1].kind = KindOfWire
           /\ unpackRet.err = Nil => Service(srv) = WireService

C6_Witness ==
    /\ op = "unpack"
    /\ HasHeader
    /\ Byte0 = 6
    /\ Byte1 = 16
    /\ WireService = TunnelResService
    /\ unpackRet.err = Nil
    /\ srv.kind = "TunnelRes"
    /\ srvBefore.kind = "ConnRes"

\* C7: with a valid header and a known identifier the body parser is given
\* the input after the 6 header bytes and Unpack returns 6 plus the count the
\* parser reports, storing the parsed instance with a nil error when the
\* parser succeeds and returning the parser's error when it fails.
C7_ByteAccounting ==
    (Unpacked /\ HasHeader /\ Byte0 = 6 /\ Byte1 = 16 /\ WireService \in KnownServices)
        => LET b == BodyUnpack(KindOfWire, AfterHeader)
           IN  /\ calls = <<[kind |-> KindOfWire, arg |-> AfterHeader]>>
               /\ unpackRet.n = 6 + b.m
               /\ unpackRet.err = b.err
               /\ b.err = Nil => srv = [kind |-> KindOfWire, fields |-> b.fields]

\* the body parser fails after consuming one byte
C7_Witness ==
    /\ op = "unpack"
    /\ HasHeader /\ Byte0 = 6 /\ Byte1 = 16
    /\ WireService = ConnReqService
    /\ AfterHeader = <<1, 255>>
    /\ unpackRet = [n |-> 7, err |-> ErrBody]

\* C8 as stated: for a payload that serializes to L bytes and a sink that
\* never fails, Pack writes 6, 16, the ServiceID, the total length L + 6 and
\* the body, and returns L + 6, for every L.
C8_Claim ==
    (op = "pack" /\ payload.failAt < 0 /\ sinkCap = NoLimit)
        => LET L == Len(payload.fields)
           IN  /\ packRet = [n |-> L + 6, err |-> Nil]
               /\ Len(sink) = L + 6
               /\ sink[1] = 6
               /\ sink[2] = 16
               /\ sink[3] * 256 + sink[4] = Service(payload)
               /\ sink[5] * 256 + sink[6] = L + 6
               /\ SubSeq(sink, 7, Len(sink)) = payload.fields

\* the buffer with bytes 4-5 replaced by the total length tl
WithTotalLen(bytes, tl) ==
    [i \in 1..Len(bytes) |->
        IF i = 5 THEN (tl \div 256) % 256 ELSE IF i = 6 THEN tl % 256 ELSE bytes[i]]

\* total lengths the buffer is compared under
ProbeTotalLens == {0, 5, 6, 9, 65535}

\* C9: two buffers of at least 6 bytes that differ only in bytes 4-5 give the
\* same consumed count, the same error and the same slot content; a packet
\* whose total length disagrees with the bytes consumed is accepted.
C9_TotalLenIgnored ==
    (Unpacked /\ HasHeader)
        => \A tl \in ProbeTotalLens :
              LET r == Unpack(WithTotalLen(data, tl), srvBefore)
              IN  /\ r.n = unpackRet.n
                  /\ r.err = unpackRet.err
                  /\ r.srv = srv

C9_Witness ==
    /\ op = "unpack"
    /\ HasHeader /\ Byte0 = 6 /\ Byte1 = 16
    /\ WireService = RoutingIndService
    /\ unpackRet = [n |-> 8, err |-> Nil]
    /\ WireTotalLen = 0

\* C10: on every failing path the slot keeps the value it held before the
\* call; on success it holds a new instance of the matched kind filled by that
\* kind's parser.
C10_SlotFrame ==
    Unpacked
        => /\ unpackRet.err # Nil => srv = srvBefore
           /\ unpackRet.err = Nil
                => /\ HasHeader
                   /\ srv = [NewInstance(KindOfWire) EXCEPT
                                !.fields = BodyUnpack(KindOfWire, AfterHeader).fields]

\* the body parser fails and the slot still holds the caller's value
C10_Witness ==
    /\ op = "unpack"
    /\ HasHeader /\ Byte0 = 6 /\ Byte1 = 16
    /\ WireService = ConnReqService
    /\ unpackRet.err = ErrUnexpectedEOF
    /\ calls # <<>>
    /\ srvBefore = [kind |-> "ConnRes", fields |-> <<1, 0>>]
    /\ srv = srvBefore

====
